---------------------------- MODULE Spec2Model ----------------------------
(***************************************************************************)
(* A model of lcpng_if_sync.c: the synchronisation of dataplane interface  *)
(* state (admin flags, L3 MTU, addresses) into the Linux mirror interface  *)
(* of each interface pair (LIP), and the netlink transaction it uses.      *)
(*                                                                         *)
(* Every event handler runs to completion on one thread, so each handler   *)
(* is one action.  What a handler does on the way (namespace switches,     *)
(* dataplane setters, netlink transactions) is recorded, in order, in the  *)
(* variable trace, each entry stamped with the network namespace that was  *)
(* active when the call was made.                                          *)
(***************************************************************************)
EXTENDS Integers, Sequences, FiniteSets, TLC

(***************************************************************************)
(* Bounds of the model.                                                    *)
(***************************************************************************)
\* Largest number of events delivered in one run.
MaxEvents == 4
\* Width, in bits, to which the 32-bit integers of the code are scaled.
IntBits == 3
\* Largest number of messages in one received netlink buffer.
MaxMsgs == 2
\* Largest number of attributes of a message built on its own
MaxAttrs == 2

(***************************************************************************)
(* Program constants.                                                      *)
(***************************************************************************)
AF_INET == 2
AF_INET6 == 10
RTM_NEWADDR == 20
RTM_DELADDR == 21
IFA_ADDRESS == 1
IFA_LOCAL == 2
NLMSG_ERROR == 2
NLMSG_DONE == 3
NLM_F_REQUEST == 1
NLM_F_ACK == 4
NLMSG_HDRLEN == 16
RTA_HDRLEN == 4
NLMSG_ALIGNTO == 4
IFADDRMSG_LEN == 8
IP4_ADDR_LEN == 4
IP6_ADDR_LEN == 16
FIB_PROTOCOL_IP4 == 4
FIB_PROTOCOL_IP6 == 6

\* The dataplane has two physical interface slots: slot 0 is a hardware
\* device, slot 1 one in which an interface can be created and deleted.
Phys == {0, 1}
\* The host-side (tap) interface of the pair of phy p is sw interface
\* p + 2; its kernel ifindex is VifOf(p).
HostOf(p) == p + 2
Hosts == {HostOf(p) : p \in Phys}
SwIfs == Phys \cup Hosts
VifOf(p) == p + 1

MtuValues == {0, 1400, 1500}
\* sub.id is a u32; the model scales it to IntBits bits.
SubIds == {1, 2 ^ IntBits - 1}

NoNs == ""
RootNs == "root"
Namespaces == {RootNs, "ns1"}
PairNamespaces == {NoNs, "ns1"}
\* A namespace file descriptor is modelled by the namespace it refers to.
NoFd == "-1"

TableIds == {1}

VARIABLES
    sw,               \* the dataplane's sw interfaces (vnet_sw_interface_t)
    pairs,            \* the LIP registry, by lip_phy_sw_if_index
    mirror,           \* link state last pushed to the mirror of each pair
    kmtu,             \* kernel-side MTU of the mirror link of each pair
    netns,            \* the process's active network namespace
    lcp_sync_on,      \* lcp_sync ()
    lcp_auto_subint_on, \* lcp_auto_subint ()
    trace,            \* the calls made by the last handler
    last,             \* the last handler and its argument
    crashed,          \* the process faulted
    nevents,          \* number of events delivered so far
    nl_in, nl_out     \* input and result of a netlink transaction

vars == << sw, pairs, mirror, kmtu, netns, lcp_sync_on, lcp_auto_subint_on,
           trace, last, crashed, nevents, nl_in, nl_out >>

sysvars == << sw, pairs, mirror, kmtu, netns, lcp_sync_on, lcp_auto_subint_on,
              trace, last, crashed, nevents >>

NoSw == [exists |-> FALSE, admin_up |-> FALSE, mtu |-> 0, sup |-> 0,
         sub_id |-> 0, is_sub |-> FALSE]

NoName == [base |-> "", subs |-> << >>]

NoPairRec == [present |-> FALSE, host_sw_if_index |-> 0, vif_index |-> 0,
              namespace |-> NoNs, host_name |-> NoName]

(***************************************************************************)
(* The state a handler works on: the part of the program state handlers    *)
(* change while they run, and err, whether the handler returns an error    *)
(* to its caller.                                                          *)
(***************************************************************************)
Cur == [sw |-> sw, mirror |-> mirror, kmtu |-> kmtu, netns |-> netns,
        trace |-> << >>, crashed |-> crashed, depth |-> 0, maxdepth |-> 0,
        err |-> FALSE]

Emit(s, op, lip, args) ==
    [s EXCEPT !.trace = Append(@, [op |-> op, netns |-> s.netns,
                                   lip |-> lip, args |-> args])]

BoolInt(b) == IF b THEN 1 ELSE 0

\* vnet_get_sw_interface_or_null
SwResolves(s, i) == i \in SwIfs /\ s.sw[i].exists

\* lcp_itf_pair_get (lcp_itf_pair_find_by_phy (sw_if_index)) is not NULL
HasPair(i) == i \in Phys /\ pairs[i].present

\* vnet_sw_interface_is_sub
vnet_sw_interface_is_sub(s, i) == s.sw[i].is_sub


(***************************************************************************)
(* What the environment answers during one handler: whether each open of   *)
(* a namespace handle succeeds, whether the netlink MTU query and the      *)
(* other netlink transactions succeed, and what a read through a NULL      *)
(* sup_sw pointer yields (a fault, or some value).                         *)
(***************************************************************************)
UBOutcomes == [crash : BOOLEAN, admin_up : BOOLEAN, mtu : MtuValues]
NoUB == [crash |-> TRUE, admin_up |-> FALSE, mtu |-> 0]

\* Some interface has a pair and exists, and its superior interface does not.
SupMissing ==
    \E p \in Phys : pairs[p].present /\ sw[p].exists /\ ~sw[sw[p].sup].exists

\* The answers that matter to a handler: namespace handles are opened only
\* for a pair that names a namespace, and the MTU query is made only by
\* lcp_itf_pair_sync_state.
Env(with_ns, with_get) ==
    [cur_open : IF with_ns THEN BOOLEAN ELSE {TRUE},
     vif_open : IF with_ns THEN BOOLEAN ELSE {TRUE},
     get_ok : IF with_get THEN BOOLEAN ELSE {TRUE},
     set_ok : BOOLEAN,
     ub : IF SupMissing THEN UBOutcomes ELSE {NoUB}]

\* Some pair names a namespace.
AnyNs == \E p \in Phys : pairs[p].present /\ pairs[p].namespace # NoNs
PairNs(p) == p \in Phys /\ pairs[p].present /\ pairs[p].namespace # NoNs

NoEnv == [cur_open |-> TRUE, vif_open |-> TRUE, get_ok |-> TRUE,
          set_ok |-> TRUE, ub |-> NoUB]

(***************************************************************************)
(* The namespace switch around the kernel-side work of a pair.             *)
(***************************************************************************)
\* clib_setns (fd)
clib_setns(s, fd) == Emit([s EXCEPT !.netns = fd], "setns", -1, << >>)

\* clib_netns_open (name): the fd, or -1
clib_netns_open(ns, ok) == IF ok THEN ns ELSE NoFd

\* if (lip->lip_namespace) { curr_ns_fd = ...; vif_ns_fd = ...; setns }
NsAcquire(s, p, e) ==
    LET ns == pairs[p].namespace IN
    IF ns = NoNs
    THEN [s |-> s, curr_ns_fd |-> NoFd, vif_ns_fd |-> NoFd, entered |-> FALSE]
    ELSE LET curr == clib_netns_open(s.netns, e.cur_open)
             vif == clib_netns_open(ns, e.vif_open)
             s1 == Emit(s, "netns_open", p,
                        << BoolInt(curr # NoFd), BoolInt(vif # NoFd),
                           s.depth + 1 >>)
             s2 == [s1 EXCEPT !.depth = @ + 1,
                              !.maxdepth = IF s1.depth + 1 > @
                                           THEN s1.depth + 1 ELSE @]
             s3 == IF vif # NoFd THEN clib_setns(s2, vif) ELSE s2
         IN [s |-> s3, curr_ns_fd |-> curr, vif_ns_fd |-> vif,
             entered |-> TRUE]

\* if (vif_ns_fd != -1) close; if (curr_ns_fd != -1) { setns; close }
NsRelease(s, g) ==
    LET s1 == IF g.entered THEN [s EXCEPT !.depth = @ - 1] ELSE s
    IN IF g.curr_ns_fd # NoFd THEN clib_setns(s1, g.curr_ns_fd) ELSE s1

(***************************************************************************)
(* The kernel side of a pair: its mirror link lives in the pair's          *)
(* namespace (the root namespace when the pair names none), and a netlink  *)
(* request reaches it only from there.                                     *)
(***************************************************************************)
LinkNs(p) == IF pairs[p].namespace = NoNs THEN RootNs ELSE pairs[p].namespace

\* vnet_netlink_get_link_mtu (lip->lip_vif_index, &netlink_mtu)
vnet_netlink_get_link_mtu(s, p, e) ==
    LET ok == e.get_ok /\ s.netns = LinkNs(p)
    IN [ok |-> ok, mtu |-> s.kmtu[p],
        s |-> Emit(s, "nl_get_link_mtu", p,
                   << pairs[p].vif_index, IF ok THEN s.kmtu[p] ELSE -1 >>)]

\* vnet_netlink_set_link_mtu (lip->lip_vif_index, mtu)
vnet_netlink_set_link_mtu(s, p, mtu, e) ==
    LET ok == e.set_ok /\ s.netns = LinkNs(p)
        s1 == Emit(s, "nl_set_link_mtu", p,
                   << pairs[p].vif_index, mtu, BoolInt(ok) >>)
    IN IF ok THEN [s1 EXCEPT !.kmtu[p] = mtu] ELSE s1

\* lcp_itf_set_link_state (lip, state)
lcp_itf_set_link_state(s, p, state) ==
    Emit([s EXCEPT !.mirror[p] = state], "set_link_state", p,
         << BoolInt(state) >>)

\* lcp_itf_set_interface_addr (lip)
lcp_itf_set_interface_addr(s, p) == Emit(s, "set_interface_addr", p, << >>)

(***************************************************************************)
(* lcp_itf_pair_sync_state and the handlers it re-enters through the       *)
(* dataplane's MTU setter.                                                 *)
(***************************************************************************)
\* A variant of SyncLinkState that does not look at the parent's flags.
SyncLinkStateNoClamp(sw_up, sup_up) == sw_up

\* state = sw->flags & ADMIN_UP; forced to 0 when the parent is not up
SyncLinkState(sw_up, sup_up) ==
    IF sw_up /\ ~sup_up THEN FALSE ELSE sw_up

\* A variant of SyncMtu that inherits the parent's MTU but never clamps to it.
SyncMtuNoClamp(sw_mtu, sup_mtu) == IF sw_mtu = 0 THEN sup_mtu ELSE sw_mtu

\* mtu = sw->mtu; inherited when 0; clamped when the parent's is lower
SyncMtu(sw_mtu, sup_mtu) ==
    LET mtu == IF sw_mtu = 0 THEN sup_mtu ELSE sw_mtu
    IN IF sup_mtu < sw_mtu THEN sup_mtu ELSE mtu

\* A variant of SyncNetlinkMtu that pushes the MTU without comparing it with
\* the queried one.
SyncNetlinkMtuAlways(s, p, mtu, e) ==
    vnet_netlink_set_link_mtu(vnet_netlink_get_link_mtu(s, p, e).s, p, mtu, e)

\* if (NULL == get_link_mtu (..)) { if (netlink_mtu != mtu) set_link_mtu }
SyncNetlinkMtu(s, p, mtu, e) ==
    LET q == vnet_netlink_get_link_mtu(s, p, e)
    IN IF q.ok /\ q.mtu # mtu
       THEN vnet_netlink_set_link_mtu(q.s, p, mtu, e)
       ELSE q.s

\* The sw interfaces vnet_hw_interface_walk_sw visits: the hardware
\* interface's own, then its sub-interfaces.
HwWalk(s, hw) ==
    LET subs == {i \in Phys : s.sw[i].exists /\ s.sw[i].is_sub /\ s.sw[i].sup = hw}
        RECURSIVE Order(_)
        Order(S) == IF S = {} THEN << >>
                    ELSE LET m == CHOOSE x \in S : \A y \in S : x <= y
                         IN << m >> \o Order(S \ {m})
    IN << hw >> \o Order(subs)

RECURSIVE lcp_itf_pair_sync_state(_, _, _)
RECURSIVE lcp_itf_pair_sync_state_hw(_, _, _)
RECURSIVE lcp_itf_mtu_change(_, _, _)
RECURSIVE vnet_sw_interface_set_mtu(_, _, _, _)

\* vnet_sw_interface_set_mtu: stores the MTU and, when it changed, calls the
\* registered MTU-change functions.
vnet_sw_interface_set_mtu(s, i, mtu, e) ==
    LET s1 == Emit(s, "sw_set_mtu", -1, << i, mtu >>)
    IN IF s.sw[i].mtu = mtu
       THEN s1
       ELSE lcp_itf_mtu_change([s1 EXCEPT !.sw[i].mtu = mtu], i, e)

lcp_itf_pair_sync_state(s, p, e) ==
    IF s.crashed \/ ~lcp_sync_on THEN s
    ELSE IF ~SwResolves(s, p) THEN s
    ELSE
      LET lip == pairs[p]
          swr == s.sw[p]
          sup_ok == SwResolves(s, swr.sup)
          g == NsAcquire(s, p, e)
      IN IF ~sup_ok /\ e.ub.crash THEN [g.s EXCEPT !.crashed = TRUE]
         ELSE
           LET sup_up == IF sup_ok THEN s.sw[swr.sup].admin_up ELSE e.ub.admin_up
               sup_mtu == IF sup_ok THEN s.sw[swr.sup].mtu ELSE e.ub.mtu
               s1 == Emit(g.s, "sync_state", p,
                          << BoolInt(swr.admin_up), BoolInt(sup_up), swr.mtu,
                             sup_mtu, BoolInt(sup_ok) >>)
               state == SyncLinkState(swr.admin_up, sup_up)
               s2 == lcp_itf_set_link_state(s1, p, state)
               mtu == SyncMtu(swr.mtu, sup_mtu)
               s3 == vnet_sw_interface_set_mtu(s2, p, mtu, e)
               s4 == vnet_sw_interface_set_mtu(s3, lip.host_sw_if_index, mtu, e)
               s5 == SyncNetlinkMtu(s4, p, mtu, e)
               s6 == lcp_itf_set_interface_addr(s5, p)
           IN NsRelease(s6, g)

\* lcp_itf_pair_walk_sync_state_hw_cb over vnet_hw_interface_walk_sw
lcp_itf_pair_sync_state_hw(s, walk, e) ==
    IF walk = << >> THEN s
    ELSE LET i == Head(walk)
             s1 == IF HasPair(i) THEN lcp_itf_pair_sync_state(s, i, e) ELSE s
         IN lcp_itf_pair_sync_state_hw(s1, Tail(walk), e)

lcp_itf_mtu_change(s, i, e) ==
    IF ~lcp_sync_on THEN s
    ELSE IF vnet_sw_interface_is_sub(s, i)
         THEN IF HasPair(i) THEN lcp_itf_pair_sync_state(s, i, e) ELSE s
    ELSE IF ~SwResolves(s, i) THEN s
    ELSE lcp_itf_pair_sync_state_hw(s, HwWalk(s, i), e)

lcp_itf_admin_state_change(s, i, e) ==
    IF ~lcp_sync_on THEN s
    ELSE IF ~HasPair(i) THEN s
    ELSE IF vnet_sw_interface_is_sub(s, i)
         THEN lcp_itf_pair_sync_state(s, i, e)
    ELSE IF ~SwResolves(s, i) THEN s
    ELSE lcp_itf_pair_sync_state_hw(s, HwWalk(s, i), e)

\* lcp_itf_pair_walk over lcp_itf_pair_walk_sync_state_all_cb
RECURSIVE SyncAllFrom(_, _, _)
SyncAllFrom(s, p, e) ==
    IF p \notin Phys THEN s
    ELSE SyncAllFrom(IF pairs[p].present
                     THEN lcp_itf_pair_sync_state(s, p, e) ELSE s, p + 1, e)

lcp_itf_pair_sync_state_all(s, e) == SyncAllFrom(s, 0, e)


(***************************************************************************)
(* The netlink message and its transaction.                                *)
(***************************************************************************)
NLMSG_ALIGN(len) == ((len + NLMSG_ALIGNTO - 1) \div NLMSG_ALIGNTO) * NLMSG_ALIGNTO
NLMSG_SPACE(len) == NLMSG_ALIGN(len + NLMSG_HDRLEN)
RTA_LENGTH(len) == NLMSG_ALIGN(RTA_HDRLEN) + len
RTA_SPACE(len) == NLMSG_ALIGN(RTA_LENGTH(len))

\* vnet_netlink_msg_init: the header and the fixed payload
vnet_netlink_msg_init(type, flags, msg_data, msg_len) ==
    [data_len |-> NLMSG_SPACE(msg_len), nlmsg_len |-> 0, nlmsg_type |-> type,
     nlmsg_flags |-> flags \cup {NLM_F_ACK}, payload |-> msg_data,
     attrs |-> << >>]

\* A variant of vnet_netlink_msg_add_rtattr that writes the padded size into
\* the attribute's length field.
vnet_netlink_msg_add_rtattr_padded(m, rta_type, rta_data, rta_data_len) ==
    [m EXCEPT !.data_len = @ + RTA_SPACE(rta_data_len),
              !.attrs = Append(@, [rta_type |-> rta_type,
                                   rta_len |-> RTA_SPACE(rta_data_len),
                                   data |-> rta_data,
                                   data_len |-> rta_data_len,
                                   offset |-> m.data_len])]

\* vnet_netlink_msg_add_rtattr: one attribute appended to the buffer, at
\* offset vec_len (m->data)
vnet_netlink_msg_add_rtattr(m, rta_type, rta_data, rta_data_len) ==
    [m EXCEPT !.data_len = @ + RTA_SPACE(rta_data_len),
              !.attrs = Append(@, [rta_type |-> rta_type,
                                   rta_len |-> RTA_LENGTH(rta_data_len),
                                   data |-> rta_data,
                                   data_len |-> rta_data_len,
                                   offset |-> m.data_len])]

NoErr == [kind |-> "none", code |-> 0]

\* NLMSG_OK (nh, len) for the i-th message of the buffer
NLMSG_OK(buf, i, len) ==
    /\ len >= NLMSG_HDRLEN
    /\ i <= Len(buf)
    /\ buf[i].nlmsg_len >= NLMSG_HDRLEN
    /\ buf[i].nlmsg_len <= len

\* A variant of NlErrorResult that reports every error record as a failure.
NlErrorResultAlways(err, code) == [kind |-> "netlink", code |-> code]

\* if (e->error) err = clib_error_return (0, "netlink error %d", e->error)
NlErrorResult(err, code) ==
    IF code # 0 THEN [kind |-> "netlink", code |-> code] ELSE err

\* the result of the walk when the buffer holds no further valid message
NlWalkEnd(err, replies) == [err |-> err, replies |-> replies]

\* for (nh = buf; NLMSG_OK (nh, len); nh = NLMSG_NEXT (nh, len)) ...
RECURSIVE NlWalk(_, _, _, _, _, _)
NlWalk(buf, i, len, err, replies, want) ==
    IF ~NLMSG_OK(buf, i, len) THEN NlWalkEnd(err, replies)
    ELSE IF buf[i].nlmsg_type = NLMSG_DONE
         THEN [err |-> err, replies |-> replies]
    ELSE IF buf[i].nlmsg_type = NLMSG_ERROR
         THEN [err |-> NlErrorResult(err, buf[i].error), replies |-> replies]
    ELSE NlWalk(buf, i + 1, len - NLMSG_ALIGN(buf[i].nlmsg_len), err,
                IF want THEN Append(replies, buf[i]) ELSE replies, want)

\* vnet_netlink_msg_send (m, replies).  io is what the system calls answer:
\* whether socket, bind and send succeed, what recv returns and the bytes
\* it stored.
vnet_netlink_msg_send(m, want, io) ==
    LET nlmsg_len == m.data_len IN
    IF ~io.sock_ok
    THEN [err |-> [kind |-> "socket", code |-> 0], calls |-> << "socket" >>,
          replies |-> << >>, nlmsg_len |-> nlmsg_len, closed |-> FALSE,
          freed |-> FALSE]
    ELSE IF ~io.bind_ok
    THEN [err |-> [kind |-> "bind", code |-> 0],
          calls |-> << "socket", "bind", "close" >>, replies |-> << >>,
          nlmsg_len |-> nlmsg_len, closed |-> TRUE, freed |-> TRUE]
    ELSE LET err1 == IF ~io.send_ok THEN [kind |-> "send", code |-> 0] ELSE NoErr
             err2 == IF io.recv_len = -1 THEN [kind |-> "recv", code |-> 0] ELSE err1
             w == NlWalk(io.buf, 1, io.recv_len, err2, << >>, want)
         IN [err |-> w.err,
             calls |-> << "socket", "bind", "send", "recv", "close" >>,
             replies |-> w.replies, nlmsg_len |-> nlmsg_len, closed |-> TRUE,
             freed |-> TRUE]

\* The kernel's answer to a request: an acknowledgement, or an error record.
ErrMsg(code) == [nlmsg_len |-> NLMSG_HDRLEN + 20, nlmsg_type |-> NLMSG_ERROR,
                 error |-> code]
KernelReply(ok) ==
    [sock_ok |-> TRUE, bind_ok |-> TRUE, send_ok |-> TRUE,
     recv_len |-> NLMSG_HDRLEN + 20,
     buf |-> << ErrMsg(IF ok THEN 0 ELSE -22) >>]

\* struct ifaddrmsg: ifa_prefixlen is an unsigned char
IfAddrMsg(family, pfx_len, ifindex) ==
    [ifa_family |-> family, ifa_prefixlen |-> pfx_len % 256,
     ifa_index |-> ifindex]

\* The message of vnet_netlink_{add,del}_ip{4,6}_addr
AddrMsg(type, flags, family, alen, ifindex, addr, pfx_len) ==
    LET m0 == vnet_netlink_msg_init(type, flags,
                                    IfAddrMsg(family, pfx_len, ifindex),
                                    IFADDRMSG_LEN)
        m1 == vnet_netlink_msg_add_rtattr(m0, IFA_LOCAL, addr, alen)
    IN vnet_netlink_msg_add_rtattr(m1, IFA_ADDRESS, addr, alen)

vnet_netlink_del_ip4_addr_msg(ifindex, addr, pfx_len) ==
    AddrMsg(RTM_DELADDR, {NLM_F_REQUEST}, AF_INET, IP4_ADDR_LEN, ifindex,
            addr, pfx_len)

\* A variant of vnet_netlink_del_ip6_addr_msg that is a copy of the IPv4 one.
vnet_netlink_del_ip6_addr_msg_ip4(ifindex, addr, pfx_len) ==
    AddrMsg(RTM_DELADDR, {NLM_F_REQUEST}, AF_INET, IP4_ADDR_LEN, ifindex,
            addr, pfx_len)

vnet_netlink_del_ip6_addr_msg(ifindex, addr, pfx_len) ==
    AddrMsg(RTM_DELADDR, {NLM_F_REQUEST}, AF_INET6, IP6_ADDR_LEN, ifindex,
            addr, pfx_len)

vnet_netlink_add_ip4_addr_msg(ifindex, addr, pfx_len) ==
    AddrMsg(RTM_NEWADDR, {NLM_F_REQUEST}, AF_INET, IP4_ADDR_LEN, ifindex,
            addr, pfx_len)

vnet_netlink_add_ip6_addr_msg(ifindex, addr, pfx_len) ==
    AddrMsg(RTM_NEWADDR, {NLM_F_REQUEST}, AF_INET6, IP6_ADDR_LEN, ifindex,
            addr, pfx_len)

\* One address transaction: the message is sent and the call recorded.
NlAddr(s, p, m, e) ==
    LET r == vnet_netlink_msg_send(m, FALSE, KernelReply(e.set_ok))
    IN Emit(s, "nl_addr", p,
            << m.nlmsg_type, m.payload.ifa_family, m.payload.ifa_prefixlen,
               m.payload.ifa_index, m.attrs[1].data_len, m.attrs[1].data,
               m.attrs[2].data_len, m.attrs[2].data, Len(m.attrs),
               BoolInt(r.err.kind = "none") >>)

(***************************************************************************)
(* The address handlers.                                                   *)
(***************************************************************************)
Ip4AddrMsg(vif, address, address_length, is_del) ==
    IF is_del THEN vnet_netlink_del_ip4_addr_msg(vif, address, address_length)
    ELSE vnet_netlink_add_ip4_addr_msg(vif, address, address_length)

Ip6AddrMsg(vif, address, address_length, is_del) ==
    IF is_del THEN vnet_netlink_del_ip6_addr_msg(vif, address, address_length)
    ELSE vnet_netlink_add_ip6_addr_msg(vif, address, address_length)

\* A variant of lcp_itf_ip4_add_del_interface_addr that does not return when
\* the interface has no pair.
lcp_itf_ip4_add_del_interface_addr_nolip(s, i, address, address_length, is_del, e) ==
    IF ~lcp_sync_on THEN s
    ELSE LET g == NsAcquire(s, i, e)
             s1 == NlAddr(g.s, i, Ip4AddrMsg(pairs[i].vif_index, address,
                                             address_length, is_del), e)
         IN NsRelease(s1, g)

lcp_itf_ip4_add_del_interface_addr(s, i, address, address_length, is_del, e) ==
    IF ~lcp_sync_on THEN s
    ELSE IF ~HasPair(i) THEN s
    ELSE LET g == NsAcquire(s, i, e)
             s1 == NlAddr(g.s, i, Ip4AddrMsg(pairs[i].vif_index, address,
                                             address_length, is_del), e)
         IN NsRelease(s1, g)

lcp_itf_ip6_add_del_interface_addr(s, i, address, address_length, is_del, e) ==
    IF ~lcp_sync_on THEN s
    ELSE IF ~HasPair(i) THEN s
    ELSE LET g == NsAcquire(s, i, e)
             s1 == NlAddr(g.s, i, Ip6AddrMsg(pairs[i].vif_index, address,
                                             address_length, is_del), e)
         IN NsRelease(s1, g)

(***************************************************************************)
(* The table (VRF) handlers, compiled in with LCP_HAVE_VRF_SYNC.           *)
(***************************************************************************)
\* nlt_found: lcp_nl_table_find (new_table_id, FIB_PROTOCOL_IP4) finds a
\* table whose link has a name.
lcp_itf_ipX_table_bind(s, proto, i, new_table_id, nlt_found) ==
    IF ~lcp_sync_on THEN s
    ELSE IF ~HasPair(i) THEN s
    ELSE IF new_table_id # 0
         THEN IF ~nlt_found THEN s
              ELSE Emit(s, "nl_set_link_master", i,
                        << pairs[i].vif_index, new_table_id >>)
    ELSE Emit(s, "nl_set_link_master", i, << pairs[i].vif_index, 0 >>)

\* lcp_itf_ip_table_add_del.  in4 and in6: fib_table_find (FIB_PROTOCOL_IP4,
\* table_id) and fib_table_find (FIB_PROTOCOL_IP6, table_id) find a table;
\* nl_ok: the netlink request succeeds.  The handler returns its error.
lcp_itf_ip_table_add_del(s, table_id, flags, in4, in6, nl_ok) ==
    IF flags # 0
    THEN [Emit(s, "nl_add_link_vrf", -1, << table_id, BoolInt(nl_ok) >>)
            EXCEPT !.err = ~nl_ok]
    ELSE IF ~in4 \/ ~in6
    THEN [Emit(s, "nl_del_link", -1, << table_id, BoolInt(nl_ok) >>)
            EXCEPT !.err = ~nl_ok]
    ELSE s

(***************************************************************************)
(* Automatic pairs for sub-interfaces.                                     *)
(***************************************************************************)
\* "%d" of a u32: the value read as a signed integer of the same width
FormatD(x) == IF x >= 2 ^ (IntBits - 1) THEN x - 2 ^ IntBits ELSE x

\* format (name, "%s.%d%c", sup_lip->lip_host_name, sw->sub.id, 0)
SubHostName(host_name, sub_id) ==
    [host_name EXCEPT !.subs = Append(@, FormatD(sub_id))]

\* The pair lcp_itf_pair_create registers for phy p.
NewPair(p, host_name, ns) ==
    [present |-> TRUE, host_sw_if_index |-> HostOf(p), vif_index |-> VifOf(p),
     namespace |-> ns, host_name |-> host_name]

\* The tap interface lcp_itf_pair_create creates on the dataplane side.
NewTap(h) == [exists |-> TRUE, admin_up |-> FALSE, mtu |-> 1500, sup |-> h,
              sub_id |-> 0, is_sub |-> FALSE]

\* lcp_itf_interface_add_del, is_create: the pair to create for sw interface
\* i, or no pair.
AutoSubintPair(swt, i) ==
    IF ~lcp_auto_subint_on THEN NoPairRec
    ELSE IF ~swt[i].exists THEN NoPairRec
    ELSE IF ~swt[i].is_sub THEN NoPairRec
    ELSE IF ~HasPair(swt[i].sup) THEN NoPairRec
    ELSE NewPair(i, SubHostName(pairs[swt[i].sup].host_name, swt[i].sub_id),
                 pairs[swt[i].sup].namespace)

\* lcp_itf_interface_add_del, !is_create: whether lcp_itf_pair_delete is called
AutoSubintDelete(i) ==
    lcp_auto_subint_on /\ sw[i].exists /\ sw[i].is_sub


(***************************************************************************)
(* The system: one action per event, the handler run to completion.  The   *)
(* dispatcher delivers an event when no handler is running (last.h is      *)
(* "idle"); Return is the handler's return to the dispatcher.              *)
(***************************************************************************)
Ip4Addrs == {5}
Ip6Addrs == {6}
Ip4PrefixLens == {24, 32}
Ip6PrefixLens == {64}

Device0 == [exists |-> TRUE, admin_up |-> TRUE, mtu |-> 1500, sup |-> 0,
            sub_id |-> 0, is_sub |-> FALSE]

NlIdle == [want |-> FALSE, io |-> KernelReply(TRUE)]

Idle == [h |-> "idle", a |-> -1, x |-> << >>, err |-> FALSE]

SysInit ==
    /\ sw = [i \in SwIfs |-> IF i = 0 THEN Device0 ELSE NoSw]
    /\ pairs = [p \in Phys |-> NoPairRec]
    /\ mirror = [p \in Phys |-> FALSE]
    /\ kmtu = [p \in Phys |-> 1500]
    /\ netns = RootNs
    /\ lcp_sync_on \in BOOLEAN
    /\ lcp_auto_subint_on \in BOOLEAN
    /\ trace = << >>
    /\ last = Idle
    /\ crashed = FALSE
    /\ nevents = 0

Init ==
    /\ SysInit
    /\ nl_in = NlIdle
    /\ nl_out = [done |-> FALSE]

Ready == ~crashed /\ last = Idle /\ nevents < MaxEvents

\* The handler has returned: what it did becomes the program's state.
Commit(s, h, a, x) ==
    /\ sw' = s.sw
    /\ mirror' = s.mirror
    /\ kmtu' = s.kmtu
    /\ netns' = s.netns
    /\ crashed' = s.crashed
    /\ trace' = s.trace
    /\ last' = [h |-> h, a |-> a, x |-> x, err |-> s.err]
    /\ nevents' = nevents + 1

Frame == UNCHANGED << pairs, lcp_sync_on, lcp_auto_subint_on, nl_in, nl_out >>

Return ==
    /\ last # Idle
    /\ last' = Idle
    /\ trace' = << >>
    /\ UNCHANGED << sw, pairs, mirror, kmtu, netns, lcp_sync_on,
                    lcp_auto_subint_on, crashed, nevents, nl_in, nl_out >>

\* lcp_itf_pair_create called for an existing interface (by the operator).
PairCreate(p, ns) ==
    /\ Ready
    /\ sw[p].exists
    /\ ~pairs[p].present
    /\ pairs' = [pairs EXCEPT ![p] =
                   NewPair(p, [base |-> "host", subs |-> << p >>], ns)]
    /\ sw' = [sw EXCEPT ![HostOf(p)] = NewTap(HostOf(p))]
    /\ mirror' = [mirror EXCEPT ![p] = FALSE]
    /\ kmtu' = [kmtu EXCEPT ![p] = 1500]
    /\ nevents' = nevents + 1
    /\ UNCHANGED << netns, lcp_sync_on, lcp_auto_subint_on, trace, last,
                    crashed, nl_in, nl_out >>

\* lcp_itf_pair_sync_state (lip), called once.
SyncState(p, e) ==
    /\ Ready
    /\ pairs[p].present
    /\ Commit(lcp_itf_pair_sync_state(Cur, p, e), "sync_state", p, << >>)
    /\ Frame

\* lcp_itf_pair_sync_state (lip), called twice in succession.
SyncStateTwice(p, e1, e2) ==
    /\ Ready
    /\ pairs[p].present
    /\ LET s1 == lcp_itf_pair_sync_state(Emit(Cur, "call", p, << 1 >>), p, e1)
           s2 == lcp_itf_pair_sync_state(Emit(s1, "call", p, << 2 >>), p, e2)
       IN Commit(s2, "sync_state_twice", p, << >>)
    /\ Frame

SyncStateAll(e) ==
    /\ Ready
    /\ Commit(lcp_itf_pair_sync_state_all(Cur, e), "sync_state_all", -1, << >>)
    /\ Frame

\* The admin flag of an interface is changed and the admin up/down
\* functions are called.
AdminUpDown(i, up, e) ==
    /\ Ready
    /\ sw[i].exists
    /\ sw[i].admin_up # up
    /\ Commit(lcp_itf_admin_state_change(
                [Cur EXCEPT !.sw[i].admin_up = up], i, e),
              "admin_state_change", i, << BoolInt(up) >>)
    /\ Frame

\* The L3 MTU of an interface is changed through vnet_sw_interface_set_mtu.
MtuSet(i, mtu, e) ==
    /\ Ready
    /\ sw[i].exists
    /\ sw[i].mtu # mtu
    /\ LET s == vnet_sw_interface_set_mtu(Cur, i, mtu, e)
       IN Commit([s EXCEPT !.trace = Tail(@)], "mtu_change", i, << mtu >>)
    /\ Frame

Ip4Addr(i, address, address_length, is_del, e) ==
    /\ Ready
    /\ sw[i].exists
    /\ Commit(lcp_itf_ip4_add_del_interface_addr(Cur, i, address,
                                                 address_length, is_del, e),
              "ip4_addr", i, << address, address_length, BoolInt(is_del) >>)
    /\ Frame

Ip6Addr(i, address, address_length, is_del, e) ==
    /\ Ready
    /\ sw[i].exists
    /\ Commit(lcp_itf_ip6_add_del_interface_addr(Cur, i, address,
                                                 address_length, is_del, e),
              "ip6_addr", i, << address, address_length, BoolInt(is_del) >>)
    /\ Frame

TableBind(proto, i, new_table_id, nlt_found) ==
    /\ Ready
    /\ sw[i].exists
    /\ Commit(lcp_itf_ipX_table_bind(Cur, proto, i, new_table_id, nlt_found),
              "table_bind", i, << proto, new_table_id, BoolInt(nlt_found) >>)
    /\ Frame

\* lcp_itf_ip_table_add_del is called for a table that was added (flags 1)
\* or deleted (flags 0).
TableAddDel(table_id, flags, in4, in6, nl_ok) ==
    /\ Ready
    /\ flags # 0 => (in4 \/ in6)
    /\ Commit(lcp_itf_ip_table_add_del(Cur, table_id, flags, in4, in6, nl_ok),
              "table_add_del", table_id,
              << flags, BoolInt(in4), BoolInt(in6) >>)
    /\ Frame

\* An interface is created in slot i and lcp_itf_interface_add_del is
\* called with is_create.
InterfaceCreate(i, is_sub, sub_id) ==
    /\ Ready
    /\ i # 0
    /\ ~sw[i].exists
    /\ LET swt == [sw EXCEPT ![i] =
                     [exists |-> TRUE, admin_up |-> FALSE,
                      mtu |-> IF is_sub THEN 0 ELSE 1500,
                      sup |-> IF is_sub THEN 0 ELSE i,
                      sub_id |-> IF is_sub THEN sub_id ELSE 0,
                      is_sub |-> is_sub]]
           lip == IF pairs[i].present THEN NoPairRec ELSE AutoSubintPair(swt, i)
       IN IF lip.present
          THEN /\ pairs' = [pairs EXCEPT ![i] = lip]
               /\ sw' = [swt EXCEPT ![HostOf(i)] = NewTap(HostOf(i))]
               /\ mirror' = [mirror EXCEPT ![i] = FALSE]
               /\ kmtu' = [kmtu EXCEPT ![i] = 1500]
               /\ trace' = << [op |-> "pair_create", netns |-> netns,
                               lip |-> i, args |-> << >>] >>
          ELSE /\ sw' = swt
               /\ trace' = << >>
               /\ UNCHANGED << pairs, mirror, kmtu >>
    /\ last' = [h |-> "interface_add", a |-> i,
                x |-> << BoolInt(is_sub), sub_id >>, err |-> FALSE]
    /\ nevents' = nevents + 1
    /\ UNCHANGED << netns, lcp_sync_on, lcp_auto_subint_on, crashed, nl_in,
                    nl_out >>

\* lcp_itf_interface_add_del is called with !is_create and the interface
\* in slot i is deleted.
InterfaceDelete(i) ==
    /\ Ready
    /\ i # 0
    /\ sw[i].exists
    /\ IF AutoSubintDelete(i) /\ pairs[i].present
       THEN /\ pairs' = [pairs EXCEPT ![i] = NoPairRec]
            /\ sw' = [sw EXCEPT ![i] = NoSw, ![HostOf(i)] = NoSw]
            /\ trace' = << [op |-> "pair_delete", netns |-> netns,
                            lip |-> i, args |-> << >>] >>
       ELSE /\ sw' = [sw EXCEPT ![i] = NoSw]
            /\ trace' = << >>
            /\ UNCHANGED pairs
    /\ last' = [h |-> "interface_del", a |-> i, x |-> << >>, err |-> FALSE]
    /\ nevents' = nevents + 1
    /\ UNCHANGED << mirror, kmtu, netns, lcp_sync_on, lcp_auto_subint_on,
                    crashed, nl_in, nl_out >>

Next ==
    \/ Return
    \/ \E p \in Phys, ns \in PairNamespaces : PairCreate(p, ns)
    \/ \E p \in Phys : \E e \in Env(PairNs(p), TRUE) : SyncState(p, e)
    \/ \E p \in Phys : \E e1 \in Env(PairNs(p), TRUE),
                            e2 \in Env(PairNs(p), TRUE) :
          SyncStateTwice(p, e1, e2)
    \/ \E e \in Env(AnyNs, TRUE) : SyncStateAll(e)
    \/ \E i \in Phys, up \in BOOLEAN : \E e \in Env(AnyNs, TRUE) :
          AdminUpDown(i, up, e)
    \/ \E i \in Phys, mtu \in MtuValues : \E e \in Env(AnyNs, TRUE) :
          MtuSet(i, mtu, e)
    \/ \E i \in Phys, a \in Ip4Addrs, l \in Ip4PrefixLens, d \in BOOLEAN :
          \E e \in Env(PairNs(i), FALSE) : Ip4Addr(i, a, l, d, e)
    \/ \E i \in Phys, a \in Ip6Addrs, l \in Ip6PrefixLens, d \in BOOLEAN :
          \E e \in Env(PairNs(i), FALSE) : Ip6Addr(i, a, l, d, e)
    \/ \E proto \in {FIB_PROTOCOL_IP4, FIB_PROTOCOL_IP6}, i \in Phys,
          t \in TableIds \cup {0}, f \in BOOLEAN : TableBind(proto, i, t, f)
    \/ \E t \in TableIds, flags \in {0, 1}, in4 \in BOOLEAN, in6 \in BOOLEAN,
          nl_ok \in BOOLEAN : TableAddDel(t, flags, in4, in6, nl_ok)
    \/ \E i \in Phys, b \in BOOLEAN, id \in SubIds : InterfaceCreate(i, b, id)
    \/ \E i \in Phys : InterfaceDelete(i)

Spec == Init /\ [][Next]_vars


(***************************************************************************)
(* The netlink transaction on its own: every answer of the system calls    *)
(* and every received buffer of up to MaxMsgs messages.                    *)
(***************************************************************************)
DoneMsg == [nlmsg_len |-> NLMSG_HDRLEN + 4, nlmsg_type |-> NLMSG_DONE,
            error |-> 0]
OtherMsg == [nlmsg_len |-> NLMSG_HDRLEN + 16, nlmsg_type |-> RTM_NEWADDR,
             error |-> 0]
NlMsgKinds == {DoneMsg, ErrMsg(0), ErrMsg(-22), OtherMsg}
NlBufs == UNION {[1 .. n -> NlMsgKinds] : n \in 0 .. MaxMsgs}

\* Number of bytes the first n messages of the buffer occupy.
RECURSIVE BufBytes(_, _)
BufBytes(buf, n) ==
    IF n = 0 THEN 0 ELSE BufBytes(buf, n - 1) + NLMSG_ALIGN(buf[n].nlmsg_len)

\* What recv may return for a buffer: a failure, nothing, all of it, or all
\* of it but the last bytes.
RecvLens(buf) ==
    {-1, 0, BufBytes(buf, Len(buf))}
        \cup {BufBytes(buf, Len(buf)) - 4 : x \in {y \in {1} : Len(buf) > 0}}

NlInputs ==
    {[want |-> w, io |-> [sock_ok |-> so, bind_ok |-> bo, send_ok |-> se,
                          recv_len |-> l, buf |-> b]] :
        w \in BOOLEAN, so \in BOOLEAN, bo \in BOOLEAN, se \in BOOLEAN,
        b \in NlBufs, l \in UNION {RecvLens(bb) : bb \in NlBufs}}

InitNl ==
    /\ SysInit
    /\ lcp_sync_on
    /\ lcp_auto_subint_on
    /\ nl_in \in {i \in NlInputs : i.io.recv_len \in RecvLens(i.io.buf)}
    /\ nl_out = [done |-> FALSE]

\* vnet_netlink_del_ip4_addr: the message is built and sent.
NlSend ==
    /\ ~nl_out.done
    /\ nl_out' = [done |-> TRUE,
                  r |-> vnet_netlink_msg_send(
                          vnet_netlink_del_ip4_addr_msg(1, 5, 32),
                          nl_in.want, nl_in.io)]
    /\ UNCHANGED << sysvars, nl_in >>

NextNl == NlSend

SpecNl == InitNl /\ [][NextNl]_vars


(***************************************************************************)
(* Properties.                                                             *)
(***************************************************************************)
\* The entries of the trace that are the log line lcp_itf_pair_sync_state
\* writes when it starts on a pair: << flags, sup-flags, mtu, sup-mtu,
\* whether the parent resolved >>.
IsSyncLog(k) == trace[k].op = "sync_state"

\* The last log line before entry k: the run of lcp_itf_pair_sync_state
\* that made the call of entry k (0 if there is none).
LastLog(k) ==
    LET S == {j \in 1 .. (k - 1) : IsSyncLog(j)}
    IN IF S = {} THEN 0 ELSE CHOOSE j \in S : \A i \in S : i <= j

\* C1: after lcp_itf_pair_sync_state, the link state pushed to the mirror of
\* a pair is up only if the admin flag of the pair's parent interface is up:
\* no mirror is up while its parent is down.
C1_MirrorUpOnlyIfParentUp ==
    \A k \in DOMAIN trace :
        (trace[k].op = "set_link_state" /\ LastLog(k) # 0
         /\ trace[LastLog(k)].args[5] = 1)
        => LET p == trace[k].lip
           IN /\ trace[k].args[1] = 1 => sw[sw[p].sup].admin_up
              /\ trace[k].args[1] = 1 => sw[p].admin_up
              /\ mirror[p] => sw[sw[p].sup].admin_up

\* A run of lcp_itf_pair_sync_state found the child up and the parent down and
\* pushed the mirror down.
C1_Witness ==
    \E k \in DOMAIN trace :
        /\ IsSyncLog(k)
        /\ trace[k].args[1] = 1 /\ trace[k].args[2] = 0 /\ trace[k].args[5] = 1
        /\ k + 1 \in DOMAIN trace
        /\ trace[k + 1].op = "set_link_state"
        /\ trace[k + 1].args[1] = 0
        /\ ~mirror[trace[k].lip]
        /\ sw[trace[k].lip].admin_up

\* C2: the MTU lcp_itf_pair_sync_state applies to the physical and to the
\* mirror interface is at most the parent's L3 MTU, and is the parent's MTU
\* when the physical interface's own MTU was 0 at the call.
C2_MtuAtMostParent ==
    \A k \in DOMAIN trace :
        (trace[k].op = "sw_set_mtu" /\ LastLog(k) # 0
         /\ trace[LastLog(k)].args[5] = 1)
        => LET log == trace[LastLog(k)]
               p == log.lip
               v == trace[k].args[2]
           IN /\ v <= sw[sw[p].sup].mtu
              /\ log.args[3] = 0 => v = log.args[4]
              /\ trace[k].args[1] \in {p, pairs[p].host_sw_if_index}
              /\ sw[p].mtu = v
              /\ sw[pairs[p].host_sw_if_index].mtu = v

\* A run of lcp_itf_pair_sync_state found the parent's MTU below the child's
\* and applied the parent's to both interfaces.
C2_Witness ==
    \E k \in DOMAIN trace :
        /\ IsSyncLog(k)
        /\ trace[k].args[5] = 1
        /\ trace[k].args[4] < trace[k].args[3]
        /\ k + 2 \in DOMAIN trace
        /\ trace[k + 2].op = "sw_set_mtu"
        /\ trace[k + 2].args[2] = trace[k].args[4]
        /\ sw[trace[k].lip].mtu = trace[k].args[4]
        /\ sw[pairs[trace[k].lip].host_sw_if_index].mtu = trace[k].args[4]


\* The set_link_mtu transactions of the last handler, and the entry that
\* marks the start of the second of two successive calls.
SetOps == {k \in DOMAIN trace : trace[k].op = "nl_set_link_mtu"}
SecondCall ==
    CHOOSE k \in DOMAIN trace : trace[k].op = "call" /\ trace[k].args[1] = 2

C4_NamespaceRestored ==
    trace # << >> => netns = trace[1].netns

IsNetlinkOp(k) ==
    trace[k].op \in {"nl_get_link_mtu", "nl_set_link_mtu", "nl_addr",
                     "nl_set_link_master", "nl_add_link_vrf", "nl_del_link",
                     "set_interface_addr"}

IsMirrorMutation(k) ==
    \/ trace[k].op = "set_link_state"
    \/ trace[k].op = "sw_set_mtu" /\ trace[k].args[1] \in Hosts

\* C7 as claimed: while lcp_sync () is off no handler issues a netlink
\* transaction or changes a mirror interface.
C7_SyncOffNoEffect ==
    ~lcp_sync_on =>
        \A k \in DOMAIN trace : ~IsNetlinkOp(k) /\ ~IsMirrorMutation(k)

IsKernelOp(k) ==
    trace[k].op \in {"set_link_state", "nl_get_link_mtu", "nl_set_link_mtu",
                     "set_interface_addr", "nl_addr", "nl_set_link_master"}

\* The handler tried to open the namespace of pair p and failed.
OpenFailed(p) ==
    \E j \in DOMAIN trace :
        trace[j].op = "netns_open" /\ trace[j].lip = p /\ trace[j].args[2] = 0

\* C8 as claimed: every kernel-side operation for a pair that names a
\* namespace whose handle can be opened is made while that namespace is the
\* active one.
C8_KernelOpsInPairNamespace ==
    \A k \in DOMAIN trace :
        (/\ IsKernelOp(k)
         /\ trace[k].lip \in Phys
         /\ pairs[trace[k].lip].namespace # NoNs
         /\ ~OpenFailed(trace[k].lip))
        => trace[k].netns = pairs[trace[k].lip].namespace

AddrOps == {k \in DOMAIN trace : trace[k].op = "nl_addr"}

\* C9: with lcp_sync () on, an IPv4 or IPv6 address add/del event on an
\* interface that has a pair issues exactly one netlink address transaction,
\* whose operation, family, address length, address, prefix length and
\* interface index are those of the event and of the pair; an event on an
\* interface without a pair issues none.
C9_OneAddrTransaction ==
    last.h \in {"ip4_addr", "ip6_addr"} =>
        IF lcp_sync_on /\ pairs[last.a].present
        THEN /\ Cardinality(AddrOps) = 1
             /\ \A k \in AddrOps :
                   /\ trace[k].lip = last.a
                   /\ trace[k].args[1] =
                        (IF last.x[3] = 1 THEN RTM_DELADDR ELSE RTM_NEWADDR)
                   /\ trace[k].args[2] =
                        (IF last.h = "ip4_addr" THEN AF_INET ELSE AF_INET6)
                   /\ trace[k].args[3] = last.x[2]
                   /\ trace[k].args[4] = pairs[last.a].vif_index
                   /\ trace[k].args[5] = (IF last.h = "ip4_addr" THEN 4 ELSE 16)
                   /\ trace[k].args[6] = last.x[1]
                   /\ trace[k].args[7] = (IF last.h = "ip4_addr" THEN 4 ELSE 16)
                   /\ trace[k].args[8] = last.x[1]
                   /\ trace[k].args[9] = 2
        ELSE \A k \in DOMAIN trace : ~IsNetlinkOp(k)

\* An IPv6 address was deleted on an interface with a pair, and one
\* transaction was issued.
C9_Witness ==
    /\ last.h = "ip6_addr"
    /\ last.x[3] = 1
    /\ lcp_sync_on
    /\ pairs[last.a].present
    /\ Cardinality(AddrOps) = 1

\* C10 as claimed: with lcp_auto_subint () on, the creation of a
\* sub-interface whose parent has a pair creates one pair, named after the
\* parent's host name, a dot and the sub-interface id, in the parent's
\* namespace; any other creation creates no pair.
C10_AutoSubintPair ==
    last.h = "interface_add" =>
        LET i == last.a
            created == {k \in DOMAIN trace : trace[k].op = "pair_create"}
        IN IF lcp_auto_subint_on /\ last.x[1] = 1 /\ HasPair(sw[i].sup)
           THEN /\ Cardinality(created) = 1
                /\ pairs[i].present
                /\ pairs[i].host_name =
                     [pairs[sw[i].sup].host_name
                        EXCEPT !.subs = Append(@, last.x[2])]
                /\ pairs[i].namespace = pairs[sw[i].sup].namespace
           ELSE created = {}

\* The received messages the walk reaches: each one and all before it are
\* whole and lie within the bytes recv returned.
NlValid(n) ==
    /\ n \in 1 .. Len(nl_in.io.buf)
    /\ \A j \in 1 .. n :
          LET rem == nl_in.io.recv_len - BufBytes(nl_in.io.buf, j - 1)
          IN /\ rem >= NLMSG_HDRLEN
             /\ nl_in.io.buf[j].nlmsg_len >= NLMSG_HDRLEN
             /\ nl_in.io.buf[j].nlmsg_len <= rem

NlTerms ==
    {n \in 1 .. Len(nl_in.io.buf) :
        NlValid(n) /\ nl_in.io.buf[n].nlmsg_type \in {NLMSG_DONE, NLMSG_ERROR}}

FirstTerm == CHOOSE n \in NlTerms : \A m \in NlTerms : n <= m

AllCallsOk ==
    /\ nl_in.io.sock_ok
    /\ nl_in.io.bind_ok
    /\ nl_in.io.send_ok
    /\ nl_in.io.recv_len # -1

\* C5: a transaction whose socket, bind, send and recv succeed and whose
\* first terminating reply is an ERROR record reports success if the record's
\* code is 0 and a failure if it is not; a DONE message reports success.
C5_ErrorCodeDecides ==
    (nl_out.done /\ AllCallsOk /\ NlTerms # {})
    => LET m == nl_in.io.buf[FirstTerm]
       IN /\ m.nlmsg_type = NLMSG_DONE => nl_out.r.err.kind = "none"
          /\ (m.nlmsg_type = NLMSG_ERROR /\ m.error = 0)
               => nl_out.r.err.kind = "none"
          /\ (m.nlmsg_type = NLMSG_ERROR /\ m.error # 0)
               => /\ nl_out.r.err.kind = "netlink"
                  /\ nl_out.r.err.code = m.error

\* A transaction whose reply is another message followed by an ERROR record of
\* code 0 was reported as a success.
C5_Witness ==
    /\ nl_out.done
    /\ AllCallsOk
    /\ NlTerms # {}
    /\ FirstTerm = 2
    /\ nl_in.io.buf[2].nlmsg_type = NLMSG_ERROR
    /\ nl_in.io.buf[2].error = 0
    /\ nl_out.r.err.kind = "none"

\* C6 as claimed: a transaction whose recv returns data without a
\* terminating DONE or ERROR message is reported as a failure.
C6_NoTerminatorIsFailure ==
    (nl_out.done /\ AllCallsOk /\ NlTerms = {})
    => nl_out.r.err.kind # "none"


\* The paired sub-interfaces of interface i.
PairedSubs(i) ==
    {c \in Phys : /\ pairs[c].present
                  /\ sw[c].exists
                  /\ sw[c].is_sub
                  /\ sw[c].sup = i}

\* C11 as claimed: with lcp_sync () on, when the handler of an admin-state
\* change of a parent device has returned, no paired sub-interface of that
\* device has its mirror admin-up while the device is admin-down, whether or
\* not the device itself has a pair.
C11_NoSubUpUnderDownParent ==
    (/\ lcp_sync_on
     /\ last.h = "admin_state_change"
     /\ ~crashed
     /\ ~sw[last.a].is_sub)
    => \A c \in PairedSubs(last.a) : ~(mirror[c] /\ ~sw[last.a].admin_up)


\* A netlink transaction of the last handler failed.
NetlinkFailed ==
    \E k \in DOMAIN trace :
        \/ trace[k].op = "nl_set_link_mtu" /\ trace[k].args[3] = 0
        \/ trace[k].op = "nl_addr" /\ trace[k].args[10] = 0
        \/ trace[k].op \in {"nl_add_link_vrf", "nl_del_link"}
             /\ trace[k].args[2] = 0

\* C12 as claimed: when a netlink transaction issued by an event handler or
\* by lcp_itf_pair_sync_state fails, the entry point returns an error to its
\* caller.
C12_FailureReturned ==
    NetlinkFailed => last.err


\* C13 as claimed: whatever step of a netlink transaction fails, when it
\* returns the outbound buffer is freed and the socket, if one was created,
\* is closed.
C13_ClosedAndFreed ==
    nl_out.done =>
        /\ nl_out.r.freed
        /\ nl_in.io.sock_ok => nl_out.r.closed

\* Whether the transaction called recv.
CalledRecv == \E k \in DOMAIN nl_out.r.calls : nl_out.r.calls[k] = "recv"

\* C16 as claimed: a transaction whose send fails returns the send error
\* without attempting a receive.
C16_SendFailureReturned ==
    (/\ nl_out.done
     /\ nl_in.io.sock_ok
     /\ nl_in.io.bind_ok
     /\ ~nl_in.io.send_ok)
    => /\ nl_out.r.err.kind = "send"
       /\ ~CalledRecv


(***************************************************************************)
(* lcp_itf_pair_sync_state for a pair whose sub-interface outlived its     *)
(* parent: sw interface 1 is a sub-interface of interface 0, which no      *)
(* longer exists, so that sup_sw is NULL.                                  *)
(***************************************************************************)
InitNoSup ==
    /\ \E up \in BOOLEAN, mtu \in MtuValues :
          sw = [i \in SwIfs |->
                  IF i = 1
                  THEN [exists |-> TRUE, admin_up |-> up, mtu |-> mtu,
                        sup |-> 0, sub_id |-> 1, is_sub |-> TRUE]
                  ELSE IF i = HostOf(1) THEN NewTap(i)
                  ELSE NoSw]
    /\ \E ns \in PairNamespaces :
          pairs = [p \in Phys |->
                     IF p = 1
                     THEN NewPair(1, [base |-> "host", subs |-> << 0, 1 >>], ns)
                     ELSE NoPairRec]
    /\ mirror = [p \in Phys |-> FALSE]
    /\ kmtu \in [Phys -> {1500}]
    /\ netns = RootNs
    /\ lcp_sync_on \in BOOLEAN
    /\ lcp_auto_subint_on = FALSE
    /\ trace = << >>
    /\ last = Idle
    /\ crashed = FALSE
    /\ nevents = 0
    /\ nl_in = NlIdle
    /\ nl_out = [done |-> FALSE]

NextNoSup ==
    \/ Return
    \/ \E p \in Phys : \E e \in Env(PairNs(p), TRUE) : SyncState(p, e)

SpecNoSup == InitNoSup /\ [][NextNoSup]_vars

\* C14 as claimed: lcp_itf_pair_sync_state for a pair whose physical
\* interface resolves and whose parent does not completes without fault,
\* pushes the interface's own admin state and MTU, and re-pushes the
\* addresses.
C14_NoFaultWithoutParent ==
    (/\ last.h = "sync_state"
     /\ lcp_sync_on
     /\ sw[last.a].exists
     /\ ~sw[sw[last.a].sup].exists)
    => /\ ~crashed
       /\ \E k \in DOMAIN trace :
             /\ IsSyncLog(k)
             /\ trace[k].lip = last.a
             /\ mirror[last.a] = (trace[k].args[1] = 1)
             /\ sw[last.a].mtu = trace[k].args[3]
       /\ \E k \in DOMAIN trace :
             trace[k].op = "set_interface_addr" /\ trace[k].lip = last.a


\* The pairs a handler run called lcp_itf_pair_sync_state on.
SyncedPairs(s) ==
    {s.trace[k].lip : k \in {j \in DOMAIN s.trace : s.trace[j].op = "sync_state"}}

\* C15 as claimed: on every interface and in every registry state the
\* admin-state-change handler and the MTU-change handler call
\* lcp_itf_pair_sync_state on the same set of pairs.
C15_SameSyncSet ==
    (lcp_sync_on /\ ~crashed) =>
        \A i \in Phys :
            sw[i].exists =>
                SyncedPairs(lcp_itf_admin_state_change(Cur, i, NoEnv))
                  = SyncedPairs(lcp_itf_mtu_change(Cur, i, NoEnv))


\* The MTU queries of the last handler.
GetOps == {k \in DOMAIN trace : trace[k].op = "nl_get_link_mtu"}
QueryFailed(k) == trace[k].args[2] = -1
SetFollows(k) ==
    /\ k + 1 \in DOMAIN trace
    /\ trace[k + 1].op = "nl_set_link_mtu"
    /\ trace[k + 1].lip = trace[k].lip

\* C17 as claimed: when the query of the kernel-side MTU fails,
\* lcp_itf_pair_sync_state pushes the computed MTU with set_link_mtu.
C17_PushOnQueryFailure ==
    \A k \in GetOps : QueryFailed(k) => SetFollows(k)


\* C18 as claimed: at most one acquisition of the namespace guard is
\* outstanding at any time, also while the dataplane setters called under
\* the guard deliver MTU-change or admin-state-change events back to the
\* handlers.
C18_GuardNotReentered ==
    \A k \in DOMAIN trace :
        trace[k].op = "netns_open" => trace[k].args[3] <= 1


\* C19 as claimed: a table-delete event leaves the host-side link of the
\* table id in place while IPv4 or IPv6 still has a table with that id.
C19_LinkKeptWhileReferenced ==
    (/\ last.h = "table_add_del"
     /\ last.x[1] = 0
     /\ last.x[2] = 1 \/ last.x[3] = 1)
    => \A k \in DOMAIN trace : trace[k].op # "nl_del_link"


\* Interface i has no pair, and no sub-interface of i has one.
NoPairAround(i) ==
    /\ ~pairs[i].present
    /\ \A c \in Phys :
          (sw[c].exists /\ sw[c].is_sub /\ sw[c].sup = i) => ~pairs[c].present

\* The last handler run missed its lookup: lcp_itf_pair_sync_state on a pair
\* whose physical interface does not resolve, or an event on an interface
\* without a pair (and, for admin-state and MTU events, without paired
\* sub-interfaces).
LookupMiss ==
    \/ last.h = "sync_state" /\ ~sw[last.a].exists
    \/ last.h \in {"admin_state_change", "mtu_change"} /\ NoPairAround(last.a)
    \/ last.h \in {"ip4_addr", "ip6_addr", "table_bind"}
         /\ ~pairs[last.a].present

\* C20: a handler run that misses its lookup makes no call at all: it issues
\* no netlink transaction, sets no admin state and no MTU, opens no
\* namespace handle and leaves the active namespace as it was.
C20_LookupMissNoOp ==
    LookupMiss => trace = << >> /\ ~last.err

\* lcp_itf_pair_sync_state ran, with lcp_sync () on, for a pair that names a
\* namespace and whose physical interface no longer exists, and made no call.
C20_Witness ==
    /\ last.h = "sync_state"
    /\ lcp_sync_on
    /\ pairs[last.a].present
    /\ pairs[last.a].namespace # NoNs
    /\ ~sw[last.a].exists
    /\ trace = << >>


(***************************************************************************)
(* The construction of a message on its own: a fixed payload of any of     *)
(* PayloadLens bytes and up to MaxAttrs attributes whose values have any   *)
(* of AttrLens bytes.  Here nl_in holds the request to build and nl_out    *)
(* the message built and what its transaction returned.                    *)
(***************************************************************************)
PayloadLens == {0, 8, 9}
AttrLens == {1, 4, 5, 16}
AttrLenSeqs == UNION {[1 .. n -> AttrLens] : n \in 0 .. MaxAttrs}

\* vnet_netlink_msg_add_rtattr called for each value length in turn
RECURSIVE AddAttrs(_, _, _)
AddAttrs(m, lens, k) ==
    IF k > Len(lens) THEN m
    ELSE AddAttrs(vnet_netlink_msg_add_rtattr(m, IFA_LOCAL, 0, lens[k]),
                  lens, k + 1)

InitMsg ==
    /\ SysInit
    /\ lcp_sync_on
    /\ lcp_auto_subint_on
    /\ nl_in \in [type : {RTM_NEWADDR, RTM_DELADDR},
                  flags : {{}, {NLM_F_REQUEST}},
                  msg_len : PayloadLens,
                  lens : AttrLenSeqs]
    /\ nl_out = [done |-> FALSE]

\* The message is initialised, the attributes are added and it is sent.
MsgBuild ==
    /\ ~nl_out.done
    /\ LET m == AddAttrs(vnet_netlink_msg_init(nl_in.type, nl_in.flags,
                                               [len |-> nl_in.msg_len],
                                               nl_in.msg_len),
                         nl_in.lens, 1)
       IN nl_out' = [done |-> TRUE, m |-> m,
                     r |-> vnet_netlink_msg_send(m, FALSE, KernelReply(TRUE))]
    /\ UNCHANGED << sysvars, nl_in >>

NextMsg == MsgBuild

SpecMsg == InitMsg /\ [][NextMsg]_vars

\* x rounded up to a multiple of four
RoundUp4(x) == 4 * ((x + 3) \div 4)

RECURSIVE PaddedSum(_, _)
PaddedSum(lens, k) ==
    IF k = 0 THEN 0 ELSE PaddedSum(lens, k - 1) + RoundUp4(4 + lens[k])

\* The bytes attribute k of the built message occupies.
Occupies(k) ==
    (IF k < Len(nl_out.m.attrs) THEN nl_out.m.attrs[k + 1].offset
     ELSE nl_out.m.data_len) - nl_out.m.attrs[k].offset

\* C21: in a message built with a payload of P bytes and attributes of value
\* lengths L1..Ln, the length field of attribute i is 4 + Li, attribute i
\* occupies that length rounded up to a multiple of 4, the header's flags
\* include NLM_F_ACK, and the nlmsg_len written at send time is 16 + P
\* rounded up to a multiple of 4 plus the sum of the attributes' padded sizes.
C21_MessageLayout ==
    nl_out.done =>
        /\ Len(nl_out.m.attrs) = Len(nl_in.lens)
        /\ \A k \in DOMAIN nl_in.lens :
              /\ nl_out.m.attrs[k].rta_len = 4 + nl_in.lens[k]
              /\ Occupies(k) = RoundUp4(4 + nl_in.lens[k])
        /\ NLM_F_ACK \in nl_out.m.nlmsg_flags
        /\ nl_out.r.nlmsg_len =
              RoundUp4(16 + nl_in.msg_len)
                + PaddedSum(nl_in.lens, Len(nl_in.lens))

\* A message with a 9-byte payload, built without flags, with attributes of
\* 5 and 1 bytes, was sent with a total length of 28 + 12 + 8 bytes.
C21_Witness ==
    /\ nl_out.done
    /\ nl_in.msg_len = 9
    /\ nl_in.flags = {}
    /\ nl_in.lens = << 5, 1 >>
    /\ nl_out.m.attrs[1].rta_len = 9
    /\ nl_out.m.attrs[2].rta_len = 5
    /\ nl_out.r.nlmsg_len = 48

=============================================================================
